---- MODULE Spec2Model ----
(***************************************************************************)
(* tsend (src/index.ts): the JSend response shaper.                        *)
(*                                                                         *)
(* The model follows one TSEnd instance and the calls made on it and on    *)
(* the static entry points.  generateResponse and error call each other,   *)
(* so a call is followed frame by frame: pc names the function whose frame *)
(* is on top of the stack, depth counts the frames.                        *)
(*                                                                         *)
(* JavaScript values are strings.  A token in angle brackets is a value    *)
(* that is not a string (undefined, null, a number, an array); every other *)
(* string is the JavaScript string of the same spelling.  An object is a   *)
(* function from its keys to values.  The key lists of a branch spec are   *)
(* sets: requireKeys and pick only ask whether a key is listed.            *)
(***************************************************************************)
EXTENDS Integers, Sequences, FiniteSets, TLC

VARIABLES
    inst,         \* "none" | "ok" | "threw": the outcome of new TSEnd(config)
    ctorGiven,    \* the constructor was given a config
    ctorConfig,   \* the config the constructor was given
    this_config,  \* the instance's _config
    pc,           \* "idle" | "generateResponse" | "error" | "return" | "throw"
    fn,           \* the entry point that was called
    arg,          \* the argument of a static entry point
    argGiven,     \* getResponse was given a config of its own
    orig,         \* the candidate the caller passed
    data,         \* the data argument of the frame on top
    cfg,          \* the config argument of the frame on top
    depth,        \* the number of frames on the stack
    result,       \* the object returned
    valid,        \* what isValid returned
    round,        \* 1: the call itself; 2: project applied to what it returned
    first         \* the object returned in round 1

vars == <<inst, ctorGiven, ctorConfig, this_config, pc, fn, arg, argGiven, orig,
          data, cfg, depth, result, valid, round, first>>

-----------------------------------------------------------------------------
(* Bounds *)

\* The longest schema that is generated.
MaxBranches == 2

\* The frames the stack holds; a call beyond it throws RangeError.
StackLimit == 3

-----------------------------------------------------------------------------
(* Values and objects *)

Undefined == "<undefined>"
Null == "<null>"

\* The values that are not strings.
NonStrings == {Undefined, Null, "<0>", "<400>", "<[1]>"}

\* lodash isNil
isNil(v) == v \in {Undefined, Null}

\* lodash isString
isString(v) == v \notin NonStrings

\* lodash isEmpty: nil, a number, and a string or array without elements.
isEmpty(v) == v \in {Undefined, Null, "<0>", "<400>", ""}

\* The keys a candidate may hold.
Keys == {"status", "data", "message", "code"}

\* The field names of the schemas.
FieldNames == Keys \cup {"payload"}

\* The values a candidate's key may hold.
FieldValues(k) ==
    CASE k = "status"  -> {"success", "unknown", Undefined}
      [] k = "data"    -> {"x"}
      [] k = "message" -> {"bad"}
      [] k = "code"    -> {"<400>"}

EmptyObject == [k \in {} |-> ""]

\* The objects a caller passes.
Objects ==
    UNION { { f \in [S -> UNION {FieldValues(k) : k \in Keys}] :
                \A k \in S : f[k] \in FieldValues(k) } : S \in SUBSET Keys }

\* A value handed to generateResponse: an object, or a value that is none.
Obj(f)  == [isObject |-> TRUE,  prim |-> Undefined, entries |-> f]
Prim(v) == [isObject |-> FALSE, prim |-> v,         entries |-> EmptyObject]

Candidates == {Obj(f) : f \in Objects} \cup {Prim(v) : v \in {Undefined, Null, "x"}}

\* The arguments of TSEnd.success, TSEnd.fail and TSEnd.error.
ArgValues == {"x", "", Undefined, Null, "<0>", "<[1]>"}

\* lodash isObject
isObject(d) == d.isObject

\* The literal { message: '' } of success, fail, error and generateResponse.
MessageObject == [k \in {"message"} |-> ""]

-----------------------------------------------------------------------------
(* Schemas *)

\* A schema is the sequence of its branch specs in the order of its keys; its
\* i-th key is BranchNames[i].
BranchNames == <<"success", "fail", "error", "extra">>

BranchSpec(req, opt) == [hasRequired |-> TRUE, required |-> req, optional |-> opt]

\* A branch spec without `required`, such as bogus: {}.
BogusSpec == [hasRequired |-> FALSE, required |-> {}, optional |-> {}]

JSEND_CONFIG ==
    << BranchSpec({"status", "data"}, {}),
       BranchSpec({"status", "data"}, {}),
       BranchSpec({"status", "message"}, {"code", "data"}) >>

\* { success: { required: ["status", "payload"] } }
PAYLOAD_CONFIG == << BranchSpec({"status", "payload"}, {}) >>

BranchSpecs ==
    { BranchSpec(req, opt) : req \in SUBSET {"status", "data", "message"},
                             opt \in {{}, {"code", "data"}} }
    \cup {BogusSpec}

Schemas ==
    UNION { [1..n -> BranchSpecs] : n \in 0..MaxBranches }
    \cup {JSEND_CONFIG, PAYLOAD_CONFIG}

\* lodash every(config, spec => has(spec, 'required'))
isValidConfig(config) == \A i \in DOMAIN config : config[i].hasRequired

\* The config a caller may hand to getResponse itself.
CallConfigs == {JSEND_CONFIG}

-----------------------------------------------------------------------------
(* The functions of src/index.ts *)

\* Mutant: some in place of every.
requireKeys_some(keys, d) == \E key \in keys : key \in DOMAIN d.entries

\* keys.every((key) => key in data), data an object
requireKeys(keys, d) == \A key \in keys : key \in DOMAIN d.entries

\* Object.keys(config).some(...), data an object
isValid(d, config) ==
    \E i \in DOMAIN config : requireKeys(config[i].required, d)

\* isValid on any value: `key in data` throws TypeError when data is no object,
\* and `some` stops at the first branch that answers true.
isValidOutcome(d, config) ==
    IF isObject(d)
    THEN IF isValid(d, config) THEN "true" ELSE "false"
    ELSE IF Len(config) = 0 THEN "false"
         ELSE IF config[1].required = {} THEN "true" ELSE "TypeError"

\* Mutant: the last key whose spec passes.
findKey_last(config, d) ==
    IF \E i \in DOMAIN config : config[i].required \subseteq DOMAIN d.entries
    THEN CHOOSE i \in DOMAIN config :
            /\ config[i].required \subseteq DOMAIN d.entries
            /\ \A j \in DOMAIN config :
                  j > i => ~(config[j].required \subseteq DOMAIN d.entries)
    ELSE 0

\* lodash findKey: the first key whose spec passes, 0 for undefined.
findKey(config, d) ==
    IF \E i \in DOMAIN config : requireKeys(config[i].required, d)
    THEN CHOOSE i \in DOMAIN config :
            /\ requireKeys(config[i].required, d)
            /\ \A j \in 1..(i - 1) : ~requireKeys(config[j].required, d)
    ELSE 0

\* Mutant: nothing is trimmed.
pick_all(f, keys) == f

\* lodash pick
pick(f, keys) == [k \in (keys \cap DOMAIN f) |-> f[k]]

\* Mutant: the required keys are left out of the pick.
projection_optional(d, config) ==
    LET i == CHOOSE b \in DOMAIN config :
                /\ config[b].required \subseteq DOMAIN d.entries
                /\ \A j \in 1..(b - 1) :
                      ~(config[j].required \subseteq DOMAIN d.entries)
    IN  [k \in (config[i].optional \cap DOMAIN d.entries) |-> d.entries[k]]

\* generateResponse past its guards: get(config, status), then pick.
projection(d, config) ==
    LET configByStatus == config[findKey(config, d)]
    IN  pick(d.entries, configByStatus.required \cup configByStatus.optional)

\* TSEnd.error: a message that is empty and no string is replaced by ''.
TSEnd_error(message) ==
    [status |-> "error",
     message |-> IF isEmpty(message) /\ ~isString(message) THEN "" ELSE message]

\* Mutant: a payload that is null or undefined is wrapped like any other.
TSEnd_status_wrap(status, payload) == [status |-> status, data |-> payload]

\* TSEnd.success and TSEnd.fail
TSEnd_status(status, payload) ==
    IF isNil(payload) THEN TSEnd_error("")
    ELSE [status |-> status, data |-> payload]

StaticResult(f, a) ==
    IF f = "error" THEN TSEnd_error(a) ELSE TSEnd_status(f, a)

\* The candidate the entry point is said to hand to generateResponse.
Synthesized(f, a) ==
    IF f = "error" THEN [status |-> "error", message |-> a]
    ELSE [status |-> f, data |-> a]

-----------------------------------------------------------------------------
(* The state machine *)

Init ==
    /\ inst = "none"
    /\ ctorGiven = FALSE
    /\ ctorConfig = JSEND_CONFIG
    /\ this_config = JSEND_CONFIG
    /\ pc = "idle"
    /\ fn = "none"
    /\ arg = Undefined
    /\ argGiven = FALSE
    /\ orig = Prim(Undefined)
    /\ data = Prim(Undefined)
    /\ cfg = JSEND_CONFIG
    /\ depth = 0
    /\ result = EmptyObject
    /\ valid = "none"
    /\ round = 0
    /\ first = EmptyObject

\* The config the constructor keeps: config ?? this._config
ConstructorConfig(given, config) == IF given THEN config ELSE JSEND_CONFIG

\* Mutant: the constructor takes any config.
ConstructorThrows_never(given, config) == FALSE

\* if (config && !isValidConfig(config)) throw new Error()
ConstructorThrows(given, config) == given /\ ~isValidConfig(config)

\* new TSEnd(config) and new TSEnd()
Construct ==
    /\ inst = "none"
    /\ \E given \in BOOLEAN : \E config \in Schemas :
          /\ given \/ config = JSEND_CONFIG
          /\ ctorGiven' = given
          /\ ctorConfig' = config
          /\ IF ConstructorThrows(given, config)
             THEN inst' = "threw" /\ UNCHANGED this_config
             ELSE inst' = "ok" /\ this_config' = ConstructorConfig(given, config)
    /\ UNCHANGED <<pc, fn, arg, argGiven, orig, data, cfg, depth, result, valid,
                   round, first>>

\* The config getResponse hands on: config ?? this._config
ResponseConfig(given, config) == IF given THEN config ELSE this_config

\* instance.getResponse(data, config?)
GetResponse ==
    /\ inst = "ok"
    /\ pc = "idle"
    /\ \E d \in Candidates : \E given \in BOOLEAN : \E config \in CallConfigs :
          /\ orig' = d
          /\ data' = d
          /\ argGiven' = given
          /\ cfg' = ResponseConfig(given, config)
    /\ fn' = "getResponse"
    /\ pc' = "generateResponse"
    /\ depth' = 1
    /\ round' = 1
    /\ UNCHANGED <<inst, ctorGiven, ctorConfig, this_config, arg, result, valid,
                   first>>

\* instance.isValid(data)
IsValidCall ==
    /\ inst = "ok"
    /\ pc = "idle"
    /\ \E d \in Candidates :
          /\ orig' = d
          /\ data' = d
          /\ LET outcome == isValidOutcome(d, this_config)
             IN  IF outcome = "TypeError"
                 THEN pc' = "throw" /\ valid' = "none"
                 ELSE pc' = "return" /\ valid' = outcome
    /\ fn' = "isValid"
    /\ cfg' = this_config
    /\ round' = 1
    /\ UNCHANGED <<inst, ctorGiven, ctorConfig, this_config, arg, argGiven, depth,
                   result, first>>

\* A call made from the frame on top: one more frame, or RangeError.
CallFrame(f, d) ==
    IF depth < StackLimit
    THEN /\ pc' = f
         /\ data' = d
         /\ depth' = depth + 1
    ELSE /\ pc' = "throw"
         /\ UNCHANGED <<data, depth>>

\* Mutant: error is handed the data itself.
ErrorArgument_data(d) == d

\* Mutant: error is handed an object that carries the error status.
ErrorArgument_status(d) == Obj([status |-> "error", message |-> ""])

\* The argument generateResponse and error hand to error: { message: '' }
ErrorArgument(d) == Obj(MessageObject)

\* What decides that generateResponse hands over to error.
NoResponse(d, config) == ~isObject(d) \/ findKey(config, d) = 0

\* The body of generateResponse
GenerateResponseStep ==
    /\ pc = "generateResponse"
    /\ IF NoResponse(data, cfg)
       THEN /\ CallFrame("error", ErrorArgument(data))
            /\ UNCHANGED result
       ELSE /\ pc' = "return"
            /\ result' = projection(data, cfg)
            /\ UNCHANGED <<data, depth>>
    /\ UNCHANGED <<inst, ctorGiven, ctorConfig, this_config, fn, arg, argGiven,
                   orig, cfg, valid, round, first>>

\* The body of error, forceCreate = false
ErrorStep ==
    /\ pc = "error"
    /\ IF ~isObject(data)
       THEN CallFrame("error", ErrorArgument(data))
       ELSE CallFrame("generateResponse", data)
    /\ UNCHANGED <<inst, ctorGiven, ctorConfig, this_config, fn, arg, argGiven,
                   orig, cfg, result, valid, round, first>>

\* TSEnd.success(payload), TSEnd.fail(payload), TSEnd.error(message)
StaticCall ==
    /\ pc = "idle"
    /\ \E f \in {"success", "fail", "error"} : \E a \in ArgValues :
          /\ fn' = f
          /\ arg' = a
          /\ result' = StaticResult(f, a)
    /\ pc' = "return"
    /\ round' = 1
    /\ UNCHANGED <<inst, ctorGiven, ctorConfig, this_config, argGiven, orig, data,
                   cfg, depth, valid, first>>

\* generateResponse, with the default config, on the candidate a static entry
\* point stands for.
ProjectSynthesized ==
    /\ pc = "return"
    /\ fn \in {"success", "fail", "error"}
    /\ round = 1
    /\ first' = result
    /\ orig' = Obj(Synthesized(fn, arg))
    /\ data' = Obj(Synthesized(fn, arg))
    /\ cfg' = JSEND_CONFIG
    /\ pc' = "generateResponse"
    /\ depth' = 1
    /\ round' = 2
    /\ UNCHANGED <<inst, ctorGiven, ctorConfig, this_config, fn, arg, argGiven,
                   result, valid>>

\* getResponse on what getResponse returned, with the same config.
Reproject ==
    /\ pc = "return"
    /\ fn = "getResponse"
    /\ round = 1
    /\ first' = result
    /\ data' = Obj(result)
    /\ pc' = "generateResponse"
    /\ depth' = 1
    /\ round' = 2
    /\ UNCHANGED <<inst, ctorGiven, ctorConfig, this_config, fn, arg, argGiven,
                   orig, cfg, result, valid>>

\* The caller has its answer; the instance is ready for the next call.
Done ==
    /\ pc \in {"return", "throw"}
    /\ pc' = "idle"
    /\ fn' = "none"
    /\ arg' = Undefined
    /\ argGiven' = FALSE
    /\ orig' = Prim(Undefined)
    /\ data' = Prim(Undefined)
    /\ cfg' = JSEND_CONFIG
    /\ depth' = 0
    /\ result' = EmptyObject
    /\ valid' = "none"
    /\ round' = 0
    /\ first' = EmptyObject
    /\ UNCHANGED <<inst, ctorGiven, ctorConfig, this_config>>

Next ==
    \/ Construct
    \/ GetResponse
    \/ IsValidCall
    \/ GenerateResponseStep
    \/ ErrorStep
    \/ StaticCall
    \/ ProjectSynthesized
    \/ Reproject
    \/ Done

Spec == Init /\ [][Next]_vars

-----------------------------------------------------------------------------
(* The claims.  Their formulas read the state and the schema directly, not   *)
(* through the operators above.                                              *)

\* The candidate holds every required key of the branch spec.
Matches(d, spec) == spec.required \subseteq DOMAIN d.entries

\* Branch b is the first branch of config, in key order, that d matches.
FirstMatch(config, d, b) ==
    /\ b \in DOMAIN config
    /\ Matches(d, config[b])
    /\ \A j \in DOMAIN config : j < b => ~Matches(d, config[j])

\* The entries of f whose keys the branch spec lists.
Picked(f, spec) ==
    [k \in ((spec.required \cup spec.optional) \cap DOMAIN f) |-> f[k]]

\* An object candidate with a status that is neither null nor undefined.
HasStatus(d) ==
    /\ isObject(d)
    /\ "status" \in DOMAIN d.entries
    /\ d.entries["status"] \notin {Undefined, Null}

\* getResponse has answered the caller's own call.
Answered == fn = "getResponse" /\ round = 1 /\ pc \in {"return", "throw"}

\* C1: with the default schema, project on a candidate that is no object, has
\* no status key or has a null/undefined status returns a value, the
\* ErrorResult; it never throws.
C1_MalformedGetsErrorResult ==
    ( /\ Answered
      /\ cfg = JSEND_CONFIG
      /\ ~HasStatus(orig) )
    => pc = "return"

\* C2: every call of project with a schema that passes isValidConfig reaches
\* a return: the calls generateResponse -> error -> generateResponse never
\* exhaust the stack.
C2_EveryCallReturns ==
    (fn = "getResponse" /\ \A i \in DOMAIN cfg : cfg[i].hasRequired)
    => pc # "throw"

C4_StatusAlwaysKept ==
    ( /\ Answered
      /\ pc = "return"
      /\ HasStatus(orig) )
    => /\ "status" \in DOMAIN result
       /\ result["status"] = orig.entries["status"]

\* C4 as amended: the result holds a status key exactly when the candidate
\* matches a branch and the first branch it matches lists status as required
\* or optional; when it holds one, it is the candidate's status.
C4_StatusKeptWhenListed ==
    ( /\ Answered
      /\ pc = "return"
      /\ HasStatus(orig) )
    => /\ "status" \in DOMAIN result
            <=> \E b \in DOMAIN cfg :
                   /\ FirstMatch(cfg, orig, b)
                   /\ "status" \in cfg[b].required \cup cfg[b].optional
       /\ "status" \in DOMAIN result
            => result["status"] = orig.entries["status"]

\* C4 witness: a candidate with a status is projected on a branch that does
\* not list status, and the result has none.
C4_Witness ==
    /\ Answered
    /\ pc = "return"
    /\ HasStatus(orig)
    /\ \E b \in DOMAIN cfg :
         /\ FirstMatch(cfg, orig, b)
         /\ cfg[b].required # {}
         /\ "status" \notin cfg[b].required \cup cfg[b].optional
    /\ "status" \notin DOMAIN result

\* C5: project applied to what project returned, with the same schema,
\* returns it unchanged.
C5_Idempotent ==
    (fn = "getResponse" /\ round = 2 /\ pc \in {"return", "throw"})
    => (pc = "return" /\ result = first)

\* C5 witness: the first projection dropped entries of the candidate, and the
\* second one has answered.
C5_Witness ==
    /\ fn = "getResponse"
    /\ round = 2
    /\ pc = "return"
    /\ isObject(orig)
    /\ first # EmptyObject
    /\ DOMAIN first # DOMAIN orig.entries

\* The fields the default schema lists.
DefaultFields ==
    UNION {JSEND_CONFIG[i].required \cup JSEND_CONFIG[i].optional :
             i \in DOMAIN JSEND_CONFIG}

\* An object candidate with a status that matches no branch of the schema.
NoBranch == HasStatus(orig) /\ ~\E b \in DOMAIN cfg : Matches(orig, cfg[b])

BranchOf(s) ==
    IF \E i \in DOMAIN BranchNames : BranchNames[i] = s
    THEN CHOOSE i \in DOMAIN BranchNames : BranchNames[i] = s
    ELSE 0

\* The candidate's status names branch i of the custom schema and of the
\* default schema, the candidate matches the default branch, c is the one
\* required field of the custom branch besides status and d the one of the
\* default branch.
CompoundCase(i, c, d) ==
    /\ i = BranchOf(orig.entries["status"])
    /\ i \in DOMAIN cfg
    /\ i \in DOMAIN JSEND_CONFIG
    /\ Matches(orig, JSEND_CONFIG[i])
    /\ cfg[i].required \ {"status"} = {c}
    /\ JSEND_CONFIG[i].required \ {"status"} = {d}

\* {c: candidate[d], status}
Compound(c, d) ==
    [k \in {c, "status"} |->
        IF k = "status" THEN orig.entries["status"] ELSE orig.entries[d]]

ConstructorContract ==
    /\ inst = "threw"
         <=> (ctorGiven /\ \E i \in DOMAIN ctorConfig : ~ctorConfig[i].hasRequired)
    /\ inst = "ok"
         => this_config = IF ctorGiven THEN ctorConfig ELSE JSEND_CONFIG

\* C8 as claimed: the constructor's contract, and every later isValid and
\* project call of the instance uses the config the constructor kept.
C8_ConstructorAndEveryCall ==
    inst # "none"
    => /\ ConstructorContract
       /\ fn \in {"isValid", "getResponse"} => cfg = this_config

\* C8 as amended: the constructor's contract, and every later isValid call and
\* every project call that is given no config of its own uses the config the
\* constructor kept; a project call given a config uses that one.
C8_ConstructorAndOwnCalls ==
    inst # "none"
    => /\ ConstructorContract
       /\ fn = "isValid" => cfg = this_config
       /\ fn = "isValid" /\ pc = "return" /\ isObject(orig)
            => (valid = "true" <=> \E b \in DOMAIN this_config :
                                     Matches(orig, this_config[b]))
       /\ fn = "getResponse" /\ round = 1
            => cfg = IF argGiven THEN JSEND_CONFIG ELSE this_config

\* C8 witness: an instance built with a schema of its own has answered a
\* project call that was given no config.
C8_Witness ==
    /\ inst = "ok"
    /\ ctorGiven
    /\ this_config # JSEND_CONFIG
    /\ Answered
    /\ ~argGiven
    /\ pc = "return"
    /\ cfg = this_config

\* A static entry point has answered, and so has project on the candidate it
\* stands for.
Compared == fn \in {"success", "fail", "error"} /\ round = 2 /\ pc \in {"return", "throw"}

\* C9 as claimed: what TSEnd.success, TSEnd.fail and TSEnd.error return is
\* what project returns for the synthesized candidate, for every argument.
C9_StaticsAreProject ==
    Compared => (pc = "return" /\ result = first)

\* C9 as amended: the two agree for every payload that is neither null nor
\* undefined and for every message that is a string or is not empty; for the
\* other arguments the entry point returns {status: "error", message: ''},
\* which project does not.
C9_StaticsAreProjectUnlessNil ==
    Compared
    => /\ pc = "return"
       /\ IF \/ fn \in {"success", "fail"} /\ arg \in {Undefined, Null}
             \/ fn = "error" /\ arg \in {Undefined, Null, "<0>"}
          THEN /\ first = [status |-> "error", message |-> ""]
               /\ result # first
          ELSE /\ result = first
               /\ result = Synthesized(fn, arg)

\* C9 witness: TSEnd.fail("x") and project({status: "fail", data: "x"}).
C9_Witness ==
    /\ Compared
    /\ fn = "fail"
    /\ arg = "x"
    /\ pc = "return"
    /\ result = [status |-> "fail", data |-> "x"]

\* C10: whatever project returns holds every required key of the branch it
\* was projected from, the first branch the projected object matches, so
\* isValid is true of it.
C10_ResultIsValid ==
    (fn = "getResponse" /\ pc = "return")
    => \E b \in DOMAIN cfg :
         /\ FirstMatch(cfg, data, b)
         /\ result = Picked(data.entries, cfg[b])
         /\ cfg[b].required \subseteq DOMAIN result
         /\ isValid(Obj(result), cfg)

\* C10 witness: the result of a call that trimmed the candidate holds the two
\* required keys of the branch.
C10_Witness ==
    /\ Answered
    /\ pc = "return"
    /\ data = orig
    /\ DOMAIN result # DOMAIN orig.entries
    /\ \E b \in DOMAIN cfg :
         /\ FirstMatch(cfg, orig, b)
         /\ Cardinality(cfg[b].required) = 2
         /\ cfg[b].required \subseteq DOMAIN result

====
